---------------------------- MODULE Spec2Model ----------------------------
(***************************************************************************)
(* Osher's similarity solution of the scalar Riemann problem, as coded in  *)
(* Nonconvex_scalar.ipynb: osher_solution (the evaluator qtilde) and       *)
(* nonconvex_solutions (the sampled solution and the characteristic        *)
(* trace).                                                                 *)
(*                                                                         *)
(* Numbers.  A float is modelled by an exact rational <<n, d>> in lowest   *)
(* terms with d > 0; <<0, 0>> is nan (what numpy yields for 0.0/0.0).      *)
(* Python's None is the empty tuple.  Arithmetic is exact: rounding of     *)
(* the floating-point operations is not modelled.                          *)
(*                                                                         *)
(* Sizes.  The source samples the state grid and the xi grid with 1000     *)
(* points each; the model samples them with NumSamples and NumXi points.   *)
(***************************************************************************)
EXTENDS Integers, Sequences, FiniteSets, TLC

\* Points of the state grid qv (the literal 1000 of linspace(q_min, q_max, 1000)).
NumSamples == 5

\* Points of the xi grid (the literal 1000 of linspace(xi_left, xi_right, 1000)).
NumXi == 4

-----------------------------------------------------------------------------
(* Exact rational arithmetic standing for float arithmetic.                *)

None == << >>

NaN == <<0, 0>>

Abs(n) == IF n < 0 THEN -n ELSE n

RECURSIVE GCD(_, _)
GCD(a, b) == IF b = 0 THEN a ELSE GCD(b, a % b)

\* n/d in lowest terms, d > 0.
Rat(n, d) ==
    LET s == IF d < 0 THEN -1 ELSE 1
        g == GCD(Abs(n), Abs(d))
    IN  <<(s * n) \div g, (s * d) \div g>>

IsNaN(a) == a = NaN

LCM(a, b) == (a \div GCD(a, b)) * b

RAdd(a, b) ==
    IF IsNaN(a) \/ IsNaN(b) THEN NaN
    ELSE LET l == LCM(a[2], b[2])
         IN  Rat(a[1] * (l \div a[2]) + b[1] * (l \div b[2]), l)

RNeg(a) == IF IsNaN(a) THEN NaN ELSE <<-a[1], a[2]>>

RSub(a, b) == RAdd(a, RNeg(b))

RMul(a, b) ==
    IF IsNaN(a) \/ IsNaN(b) THEN NaN
    ELSE LET g1 == GCD(Abs(a[1]), b[2])
             g2 == GCD(Abs(b[1]), a[2])
             h1 == IF g1 = 0 THEN 1 ELSE g1
             h2 == IF g2 = 0 THEN 1 ELSE g2
         IN  Rat((a[1] \div h1) * (b[1] \div h2), (a[2] \div h2) * (b[2] \div h1))

\* Float division: x / 0.0 is nan for x = 0 (the only case the program meets,
\* a difference of equal flux samples over a zero spacing).
RDiv(a, b) ==
    IF IsNaN(a) \/ IsNaN(b) THEN NaN
    ELSE IF b[1] = 0 THEN NaN
    ELSE RMul(a, Rat(b[2], b[1]))

\* n1/d1 < n2/d2 for d1, d2 > 0, by comparing the integer parts and then the
\* reciprocals of the fractional parts (no cross product is formed).
RECURSIVE FracLt(_, _, _, _)
FracLt(n1, d1, n2, d2) ==
    LET f1 == n1 \div d1
        f2 == n2 \div d2
        r1 == n1 - f1 * d1
        r2 == n2 - f2 * d2
    IN  IF f1 # f2 THEN f1 < f2
        ELSE IF r2 = 0 THEN FALSE
        ELSE IF r1 = 0 THEN TRUE
        ELSE FracLt(d2, r2, d1, r1)

\* a < b; every comparison with nan is false.
RLt(x, y) ==
    IF IsNaN(x) \/ IsNaN(y) THEN FALSE ELSE FracLt(x[1], x[2], y[1], y[2])

\* a <= b
RLe(x, y) ==
    IF IsNaN(x) \/ IsNaN(y) THEN FALSE ELSE ~FracLt(y[1], y[2], x[1], x[2])

Zero == <<0, 1>>

One == <<1, 1>>


Half == <<1, 2>>

Tenth == <<1, 10>>

\* Python's builtin min(a, b) and max(a, b): the first argument is kept unless
\* the second compares strictly below (above) it.
pymin(a, b) == IF RLt(b, a) THEN b ELSE a

pymax(a, b) == IF RLt(a, b) THEN b ELSE a

-----------------------------------------------------------------------------
(* numpy helpers, on sequences of rationals.                               *)

\* Mutant of linspace: the endpoint left out (step = (stop - start)/num).
linspace_open(start, stop, num) ==
    LET step == RDiv(RSub(stop, start), <<num, 1>>)
    IN  [i \in 1..num |-> RAdd(RMul(<<i - 1, 1>>, step), start)]

\* numpy.linspace(start, stop, num): start + i*step, the last sample set to stop.
linspace(start, stop, num) ==
    LET step == RDiv(RSub(stop, start), <<num - 1, 1>>)
    IN  [i \in 1..num |->
            IF i = num THEN stop ELSE RAdd(RMul(<<i - 1, 1>>, step), start)]

\* Left-to-right scan of v[k..Len(v)] keeping the best index so far; a later
\* entry replaces it only when strictly smaller.
RECURSIVE argminScan(_, _, _)
argminScan(v, k, best) ==
    IF k > Len(v) THEN best
    ELSE argminScan(v, k + 1, IF RLt(v[k], v[best]) THEN k ELSE best)

\* The same scan for the maximum: replaced only when strictly larger.
RECURSIVE argmaxScan(_, _, _)
argmaxScan(v, k, best) ==
    IF k > Len(v) THEN best
    ELSE argmaxScan(v, k + 1, IF RLt(v[best], v[k]) THEN k ELSE best)

\* Mutant of argmin: the else branch's argmax pasted in its place.
argmin_as_argmax(v) == argmaxScan(v, 2, 1)

\* numpy.argmin: the index of the first occurrence of the minimum.
argmin(v) == argminScan(v, 2, 1)

\* Mutant of argmax: a scan that lets a later equal entry replace the best one
\* (the last occurrence of the maximum).
RECURSIVE argmaxLastScan(_, _, _)
argmaxLastScan(v, k, best) ==
    IF k > Len(v) THEN best
    ELSE argmaxLastScan(v, k + 1, IF RLe(v[best], v[k]) THEN k ELSE best)

argmax_last(v) == argmaxLastScan(v, 2, 1)

\* Mutant of argmax: the if branch's argmin pasted in its place.
argmax_as_argmin(v) == argminScan(v, 2, 1)

\* numpy.argmax: the index of the first occurrence of the maximum.
argmax(v) == argmaxScan(v, 2, 1)

\* numpy.diff(v): v[i+1] - v[i], one entry fewer than v.
diff(v) == [i \in 1..(Len(v) - 1) |-> RSub(v[i + 1], v[i])]

\* ndarray.min() and ndarray.max(): nan if any entry is nan.
RECURSIVE arrMinScan(_, _, _)
arrMinScan(v, k, m) ==
    IF k > Len(v) THEN m
    ELSE arrMinScan(v, k + 1, IF RLt(v[k], m) THEN v[k] ELSE m)

arrMin(v) == IF \E i \in 1..Len(v) : IsNaN(v[i]) THEN NaN ELSE arrMinScan(v, 2, v[1])

RECURSIVE arrMaxScan(_, _, _)
arrMaxScan(v, k, m) ==
    IF k > Len(v) THEN m
    ELSE arrMaxScan(v, k + 1, IF RLt(m, v[k]) THEN v[k] ELSE m)

arrMax(v) == IF \E i \in 1..Len(v) : IsNaN(v[i]) THEN NaN ELSE arrMaxScan(v, 2, v[1])

\* numpy.hstack((lo, mid, hi)) with scalar lo and hi.
hstack(lo, mid, hi) == <<lo>> \o mid \o <<hi>>

-----------------------------------------------------------------------------
(* Flux functions.                                                         *)

\* f = lambda q: q*(1-q), the traffic flow flux.
f_traffic(q) == RMul(q, RSub(One, q))

\* The constant a = 0.5 of the Buckley-Leverett flux.
a == Half

\* f_buckley_leverett = lambda q: q**2 / (q**2 + a*(1-q)**2)
f_buckley_leverett(q) ==
    LET q2 == RMul(q, q)
        r  == RSub(One, q)
    IN  RDiv(q2, RAdd(q2, RMul(a, RMul(r, r))))

\* A caller's nonconvex polynomial flux, q**3 - q**2 (inflection at q = 1/3).
f_cubic(q) == RSub(RMul(q, RMul(q, q)), RMul(q, q))

\* A caller's linear flux, q/2: f(q) - xi*q is constant in q at xi = 1/2.
f_linear(q) == RMul(Half, q)

Fluxes == {"traffic", "buckley_leverett", "cubic", "linear"}

\* The flux f applied to one state.
f_call(f, q) ==
    CASE f = "traffic"          -> f_traffic(q)
      [] f = "buckley_leverett" -> f_buckley_leverett(q)
      [] f = "cubic"            -> f_cubic(q)
      [] f = "linear"           -> f_linear(q)

\* The flux applied to an array, f(qv).
f_vec(f, qv) == [i \in 1..Len(qv) |-> f_call(f, qv[i])]

-----------------------------------------------------------------------------
(* osher_solution and the evaluator qtilde it returns.                     *)

NoClosure == [branch |-> "None", f |-> "None", qv |-> << >>]

\* Mutant of osher_branch: the comparison reversed.
osher_branch_reversed(q_left, q_right) ==
    IF RLe(q_right, q_left) THEN "argmin" ELSE "argmax"

\* if q_left <= q_right: the argmin closure, else: the argmax closure.
osher_branch(q_left, q_right) == IF RLe(q_left, q_right) THEN "argmin" ELSE "argmax"

\* Mutant of osher_solution: equal states are refused with an error.
osher_solution_refusing(f, q_left, q_right) ==
    IF q_left = q_right
    THEN [outcome |-> "DegenerateDataError", qtilde |-> NoClosure]
    ELSE [outcome |-> "returned",
          qtilde  |-> [branch |-> IF RLe(q_left, q_right) THEN "argmin" ELSE "argmax",
                       f      |-> f,
                       qv     |-> linspace(pymin(q_left, q_right),
                                           pymax(q_left, q_right), NumSamples)]]

\* osher_solution(f, q_left, q_right): builds the grid and returns one of the
\* two closures; it has no raise statement, so the outcome is always a return.
osher_solution(f, q_left, q_right) ==
    LET q_min == pymin(q_left, q_right)
        q_max == pymax(q_left, q_right)
        qv    == linspace(q_min, q_max, NumSamples)
    IN  [outcome |-> "returned",
         qtilde  |-> [branch |-> osher_branch(q_left, q_right), f |-> f, qv |-> qv]]

\* Mutant of objective: a sign slip, f(qv) + xij*qv.
objective_plus(cl, xij) ==
    LET fq == f_vec(cl.f, cl.qv)
    IN  [i \in 1..Len(cl.qv) |-> RAdd(fq[i], RMul(xij, cl.qv[i]))]

\* The vector f(qv) - xij*qv scanned by the evaluator for one xi.
objective(cl, xij) ==
    LET fq == f_vec(cl.f, cl.qv)
    IN  [i \in 1..Len(cl.qv) |-> RSub(fq[i], RMul(xij, cl.qv[i]))]

\* Mutant of qtilde_Q: the index is stored instead of the grid point, Q[j] = i.
qtilde_Q_index(cl, xij) ==
    LET i == IF cl.branch = "argmin" THEN argmin(objective(cl, xij))
             ELSE argmax(objective(cl, xij))
    IN  <<i, 1>>

\* Mutant of qtilde_call: the flux sample is stored instead of the state,
\* Q[j] = f(qv)[i].
qtilde_call_flux(cl, xi) ==
    [j \in 1..Len(xi) |->
        LET i == IF cl.branch = "argmin" THEN argmin(objective(cl, xi[j]))
                 ELSE argmax(objective(cl, xi[j]))
        IN  f_call(cl.f, cl.qv[i])]

\* One pass of qtilde's loop body: i = argmin/argmax(f(qv) - xij*qv); Q[j] = qv[i].
qtilde_Q(cl, xij) ==
    LET i == IF cl.branch = "argmin" THEN argmin(objective(cl, xij))
             ELSE argmax(objective(cl, xij))
    IN  cl.qv[i]

\* qtilde(xi): the loop over the xi array.
qtilde_call(cl, xi) == [j \in 1..Len(xi) |-> qtilde_Q(cl, xi[j])]

-----------------------------------------------------------------------------
(* The state: one call, either of nonconvex_solutions or, by a caller of   *)
(* its own, of osher_solution followed by one application of the           *)
(* evaluator it returned.                                                  *)

VARIABLES
    caller,      \* "nonconvex_solutions" or "user"
    pc,          \* the statement the call is at
    raised,      \* the exception that ended the call, "none" while there is none
    args,        \* the xi_left and xi_right the call was made with
    f,           \* the flux
    q_left,
    q_right,
    xi_left,
    xi_right,
    qtilde,      \* the closure returned by osher_solution
    qv,
    xi,
    q,
    fv,
    dfdq,
    dfdq_min,
    dfdq_max,
    dfdq_range,
    q_char,
    xi_min,
    xi_max,
    xi_char,
    ret          \* the returned tuple (xi, q, q_char, xi_char)

vars == <<caller, pc, raised, args, f, q_left, q_right, xi_left, xi_right, qtilde,
          qv, xi, q, fv, dfdq, dfdq_min, dfdq_max, dfdq_range, q_char, xi_min,
          xi_max, xi_char, ret>>

\* The Riemann data the calls are made with.
QStates == {Zero, <<1, 10>>, <<3, 5>>, One}

\* The (flux, q_left, q_right) of the calls: the polynomial fluxes with every
\* pair of states, the Buckley-Leverett flux with the states 0 and 1 the source
\* calls it with.
RiemannCalls ==
    ((Fluxes \ {"buckley_leverett"}) \X QStates \X QStates)
        \cup ({"buckley_leverett"} \X {Zero, One} \X {Zero, One})

\* The xi limits the calls are made with, besides None.
XiLefts == {<<-3, 2>>, <<-2, 1>>, Zero}

XiRights == {<<3, 2>>, <<2, 1>>}

\* The xi arrays a caller applies the evaluator to.
XiArrays ==
    { << <<-1, 1>>, Zero, <<3, 10>>, Half, <<2, 1>> >>,
      << <<3, 10>>, <<-1, 5>>, <<4, 5>>, <<1, 4>> >>,
      << <<29, 100>>, <<3, 10>>, <<31, 100>> >>,
      << Half >>,
      << >> }

Init ==
    /\ caller \in {"nonconvex_solutions", "user"}
    /\ pc = "osher"
    /\ raised = "none"
    /\ \E c \in RiemannCalls :
          /\ f = c[1]
          /\ q_left = c[2]
          /\ q_right = c[3]
    /\ xi_left \in IF caller = "user" THEN {None} ELSE XiLefts \cup {None}
    /\ xi_right \in IF caller = "user" THEN {None} ELSE XiRights \cup {None}
    /\ args = [xi_left |-> xi_left, xi_right |-> xi_right]
    /\ qtilde = NoClosure
    /\ qv = << >>
    /\ xi = << >>
    /\ q = << >>
    /\ fv = << >>
    /\ dfdq = << >>
    /\ dfdq_min = None
    /\ dfdq_max = None
    /\ dfdq_range = None
    /\ q_char = << >>
    /\ xi_min = None
    /\ xi_max = None
    /\ xi_char = << >>
    /\ ret = << >>

\* qtilde = osher_solution(f, q_left, q_right)
OsherSolution ==
    /\ pc = "osher"
    /\ LET r == osher_solution(f, q_left, q_right)
       IN  IF r.outcome = "returned"
           THEN /\ qtilde' = r.qtilde
                /\ pc' = IF caller = "user" THEN "query" ELSE "grid"
                /\ UNCHANGED raised
           ELSE /\ raised' = r.outcome
                /\ pc' = "raised"
                /\ UNCHANGED qtilde
    /\ UNCHANGED <<caller, args, f, q_left, q_right, xi_left, xi_right, qv, xi, q,
                   fv, dfdq, dfdq_min, dfdq_max, dfdq_range, q_char, xi_min,
                   xi_max, xi_char, ret>>

\* A caller applies the evaluator to an xi array of its own.
Query ==
    /\ pc = "query"
    /\ \E xs \in XiArrays :
          /\ xi' = xs
          /\ q' = qtilde_call(qtilde, xs)
    /\ pc' = "done"
    /\ UNCHANGED <<caller, raised, args, f, q_left, q_right, xi_left, xi_right,
                   qtilde, qv, fv, dfdq, dfdq_min, dfdq_max, dfdq_range, q_char,
                   xi_min, xi_max, xi_char, ret>>

\* q_min = min(..); q_max = max(..); qv = linspace(q_min, q_max, 1000)
ns_grid(ql, qr) == linspace(pymin(ql, qr), pymax(ql, qr), NumSamples)

Grid ==
    /\ pc = "grid"
    /\ qv' = ns_grid(q_left, q_right)
    /\ pc' = "xi"
    /\ UNCHANGED <<caller, raised, args, f, q_left, q_right, xi_left, xi_right,
                   qtilde, xi, q, fv, dfdq, dfdq_min, dfdq_max, dfdq_range, q_char,
                   xi_min, xi_max, xi_char, ret>>

\* xi = linspace(xi_left, xi_right, 1000): with None for either limit numpy
\* raises TypeError (None cannot enter the arithmetic of linspace).
ns_xi(xl, xr) ==
    IF xl = None \/ xr = None
    THEN [outcome |-> "TypeError", xi |-> << >>]
    ELSE [outcome |-> "returned", xi |-> linspace(xl, xr, NumXi)]

SampleXi ==
    /\ pc = "xi"
    /\ LET r == ns_xi(xi_left, xi_right)
       IN  IF r.outcome = "returned"
           THEN /\ xi' = r.xi
                /\ pc' = "q"
                /\ UNCHANGED raised
           ELSE /\ raised' = r.outcome
                /\ pc' = "raised"
                /\ UNCHANGED xi
    /\ UNCHANGED <<caller, args, f, q_left, q_right, xi_left, xi_right, qtilde, qv,
                   q, fv, dfdq, dfdq_min, dfdq_max, dfdq_range, q_char, xi_min,
                   xi_max, xi_char, ret>>

\* q = qtilde(xi)
Evaluate ==
    /\ pc = "q"
    /\ q' = qtilde_call(qtilde, xi)
    /\ pc' = "speeds"
    /\ UNCHANGED <<caller, raised, args, f, q_left, q_right, xi_left, xi_right,
                   qtilde, qv, xi, fv, dfdq, dfdq_min, dfdq_max, dfdq_range, q_char,
                   xi_min, xi_max, xi_char, ret>>

\* The divisor qv[1] - qv[0] of the speed computation.
ns_spacing(qvals) == RSub(qvals[2], qvals[1])

\* dfdq = diff(fv) / (qv[1] - qv[0])
ns_dfdq(fvals, qvals) ==
    LET d == diff(fvals)
        h == ns_spacing(qvals)
    IN  [i \in 1..Len(d) |-> RDiv(d[i], h)]

\* fv = f(qv); dfdq = ..; dfdq_min = dfdq.min(); dfdq_max = dfdq.max();
\* dfdq_range = dfdq_max - dfdq_min
Speeds ==
    /\ pc = "speeds"
    /\ fv' = f_vec(f, qv)
    /\ dfdq' = ns_dfdq(fv', qv)
    /\ dfdq_min' = arrMin(dfdq')
    /\ dfdq_max' = arrMax(dfdq')
    /\ dfdq_range' = RSub(dfdq_max', dfdq_min')
    /\ pc' = "bounds"
    /\ UNCHANGED <<caller, raised, args, f, q_left, q_right, xi_left, xi_right,
                   qtilde, qv, xi, q, q_char, xi_min, xi_max, xi_char, ret>>

\* if xi_left is None: xi_left = min(0,dfdq_min) - 0.1*dfdq_range
default_xi_left(xl, dmin, drange) ==
    IF xl = None THEN RSub(pymin(Zero, dmin), RMul(Tenth, drange)) ELSE xl

\* if xi_right is None: xi_right = max(0,dfdq_max) + 0.1*dfdq_range
default_xi_right(xr, dmax, drange) ==
    IF xr = None THEN RAdd(pymax(Zero, dmax), RMul(Tenth, drange)) ELSE xr

DefaultBounds ==
    /\ pc = "bounds"
    /\ xi_left' = default_xi_left(xi_left, dfdq_min, dfdq_range)
    /\ xi_right' = default_xi_right(xi_right, dfdq_max, dfdq_range)
    /\ pc' = "char"
    /\ UNCHANGED <<caller, raised, args, f, q_left, q_right, qtilde, qv, xi, q, fv,
                   dfdq, dfdq_min, dfdq_max, dfdq_range, q_char, xi_min, xi_max,
                   xi_char, ret>>

\* Mutant of ns_q_char: the midpoints without the two boundary entries.
ns_q_char_unpadded(ql, qr, qvals) ==
    [i \in 1..(Len(qvals) - 1) |-> RMul(Half, RAdd(qvals[i], qvals[i + 1]))]

\* q_char = hstack((q_min, 0.5*(qv[:-1] + qv[1:]), q_max))
ns_q_char(ql, qr, qvals) ==
    hstack(pymin(ql, qr),
           [i \in 1..(Len(qvals) - 1) |-> RMul(Half, RAdd(qvals[i], qvals[i + 1]))],
           pymax(ql, qr))

\* xi_char = hstack((xi_min, dfdq, xi_max))
ns_xi_char(lo, speeds, hi) == hstack(lo, speeds, hi)

\* Mutant of ns_xi_min: the else branch forgotten, xi_min = xi_left always.
ns_xi_min_unswapped(ql, qr, xl, xr) == xl

\* if q_left <= q_right: xi_min = xi_left, else: xi_min = xi_right
ns_xi_min(ql, qr, xl, xr) == IF RLe(ql, qr) THEN xl ELSE xr

\* if q_left <= q_right: xi_max = xi_right, else: xi_max = xi_left
ns_xi_max(ql, qr, xl, xr) == IF RLe(ql, qr) THEN xr ELSE xl

\* q_char = ..; if q_left <= q_right: xi_min, xi_max = xi_left, xi_right,
\* else: xi_min, xi_max = xi_right, xi_left; xi_char = ..
CharTrace ==
    /\ pc = "char"
    /\ q_char' = ns_q_char(q_left, q_right, qv)
    /\ xi_min' = ns_xi_min(q_left, q_right, xi_left, xi_right)
    /\ xi_max' = ns_xi_max(q_left, q_right, xi_left, xi_right)
    /\ xi_char' = ns_xi_char(xi_min', dfdq, xi_max')
    /\ pc' = "return"
    /\ UNCHANGED <<caller, raised, args, f, q_left, q_right, xi_left, xi_right,
                   qtilde, qv, xi, q, fv, dfdq, dfdq_min, dfdq_max, dfdq_range, ret>>

\* return xi, q, q_char, xi_char
Return ==
    /\ pc = "return"
    /\ ret' = <<xi, q, q_char, xi_char>>
    /\ pc' = "done"
    /\ UNCHANGED <<caller, raised, args, f, q_left, q_right, xi_left, xi_right,
                   qtilde, qv, xi, q, fv, dfdq, dfdq_min, dfdq_max, dfdq_range,
                   q_char, xi_min, xi_max, xi_char>>

Next ==
    \/ OsherSolution
    \/ Query
    \/ Grid
    \/ SampleXi
    \/ Evaluate
    \/ Speeds
    \/ DefaultBounds
    \/ CharTrace
    \/ Return

Spec == Init /\ [][Next]_vars

-----------------------------------------------------------------------------
(* Properties.                                                             *)

\* The evaluator has been applied: q holds its values for the array xi.
HasQ ==
    \/ caller = "user" /\ pc = "done"
    \/ caller = "nonconvex_solutions" /\ pc \in {"speeds", "bounds", "char", "return", "done"}

\* The call has ended, by a return or by an exception.
Ended == pc \in {"done", "raised"}

\* nonconvex_solutions was called without xi_left and without xi_right.
NoLimitsGiven ==
    /\ caller = "nonconvex_solutions"
    /\ args.xi_left = None
    /\ args.xi_right = None

q_lo == IF RLe(q_left, q_right) THEN q_left ELSE q_right

q_hi == IF RLe(q_left, q_right) THEN q_right ELSE q_left

\* The spacing of the state grid, (q_max - q_min)/(N - 1).
GridSpacing == RDiv(RSub(q_hi, q_lo), <<NumSamples - 1, 1>>)

\* The i-th point of the state grid, written out: q_min + (i-1)*spacing.
GridPoint(i) == RAdd(q_lo, RMul(<<i - 1, 1>>, GridSpacing))

\* f(qq) - xij*qq, the quantity Osher's formula minimises or maximises.
Obj(xij, qq) == RSub(f_call(f, qq), RMul(xij, qq))

RAbs(x) == IF x[1] < 0 THEN RNeg(x) ELSE x

\* C1: every value the evaluator returns is a point of the state grid and so
\* lies in [min(q_left, q_right), max(q_left, q_right)].
C1_RangeInvariant ==
    HasQ =>
        \A j \in 1..Len(q) :
            /\ \E i \in 1..NumSamples : q[j] = GridPoint(i)
            /\ RLe(q_lo, q[j])
            /\ RLe(q[j], q_hi)

\* C1 witness: the evaluator returned a value strictly inside the interval.
C1_Witness ==
    /\ HasQ
    /\ \E j \in 1..Len(q) : RLt(q_lo, q[j]) /\ RLt(q[j], q_hi)

\* C2: the returned grid point attains the minimum of f(q) - xi*q over the
\* whole grid when q_left <= q_right, and the maximum when q_left > q_right.
C2_Extremal ==
    HasQ =>
        \A j \in 1..Len(q) : \A i \in 1..NumSamples :
            IF RLe(q_left, q_right)
            THEN RLe(Obj(xi[j], q[j]), Obj(xi[j], GridPoint(i)))
            ELSE RLe(Obj(xi[j], GridPoint(i)), Obj(xi[j], q[j]))

\* C2 witness: in the argmax branch a returned value is an interior grid point
\* that is strictly better than both ends of the grid.
C2_Witness ==
    /\ HasQ
    /\ RLt(q_right, q_left)
    /\ \E j \in 1..Len(q) :
          /\ RLt(Obj(xi[j], q_lo), Obj(xi[j], q[j]))
          /\ RLt(Obj(xi[j], q_hi), Obj(xi[j], q[j]))

\* C3: among the grid points attaining the extremal value the evaluator returns
\* the lowest: every grid point below the returned one is strictly worse, in
\* the argmin branch and in the argmax branch alike.
C3_FirstOfTies ==
    HasQ =>
        \A j \in 1..Len(q) : \A i \in 1..NumSamples :
            RLt(GridPoint(i), q[j]) =>
                IF RLe(q_left, q_right)
                THEN RLt(Obj(xi[j], q[j]), Obj(xi[j], GridPoint(i)))
                ELSE RLt(Obj(xi[j], GridPoint(i)), Obj(xi[j], q[j]))

\* C3 witness: in the argmax branch two distinct grid points tie at the value
\* of the returned one, which is the lower of them.
C3_Witness ==
    /\ HasQ
    /\ RLt(q_right, q_left)
    /\ \E j \in 1..Len(q) : \E i \in 1..NumSamples :
          /\ RLt(q[j], GridPoint(i))
          /\ Obj(xi[j], GridPoint(i)) = Obj(xi[j], q[j])

\* C4: a call of nonconvex_solutions without xi_left and xi_right derives the
\* limits first and samples xi after, so it raises nothing and returns an xi
\* array that is the uniform sample from the derived xi_left to the derived
\* xi_right.
C4_LimitsDerivedBeforeSampling ==
    (NoLimitsGiven /\ Ended) =>
        /\ raised = "none"
        /\ pc = "done"
        /\ xi_left # None
        /\ xi_right # None
        /\ ret[1] = linspace(xi_left, xi_right, NumXi)

\* C5: with q_left = q_right = c the evaluator returns c for every xi,
\* whatever the flux.
C5_DegenerateConstant ==
    (HasQ /\ q_left = q_right) => \A j \in 1..Len(q) : q[j] = q_left

\* C5 witness: the evaluator of equal states c was applied to several xi, for a
\* flux with f(c) different from c.
C5_Witness ==
    /\ HasQ
    /\ q_left = q_right
    /\ Len(q) > 1
    /\ f_call(f, q_left) # q_left

\* C6 as claimed: building the solver with q_left = q_right ends in
\* DegenerateDataError and returns no evaluator.
C6_DegenerateRaises ==
    (q_left = q_right /\ pc # "osher") =>
        /\ raised = "DegenerateDataError"
        /\ qtilde = NoClosure

\* C6 amended: building the solver with q_left = q_right returns an evaluator
\* normally, the argmin closure over a grid of copies of q_left; no
\* DegenerateDataError is signalled.
C6_DegenerateReturns ==
    (q_left = q_right /\ pc # "osher") =>
        /\ raised # "DegenerateDataError"
        /\ qtilde.branch = "argmin"
        /\ Len(qtilde.qv) = NumSamples
        /\ \A i \in 1..Len(qtilde.qv) : qtilde.qv[i] = q_left

\* C6 witness: osher_solution has returned for equal states and the caller
\* holds the evaluator.
C6_Witness ==
    /\ q_left = q_right
    /\ caller = "user"
    /\ pc = "query"
    /\ qtilde # NoClosure

\* C7: in the returned bundle xi and q have the same length and q[j] is the
\* evaluator's value at xi[j]; q_char and xi_char both have N + 1 entries, the
\* N - 1 midpoints or speeds and two boundary entries.
C7_BundleShape ==
    (caller = "nonconvex_solutions" /\ pc = "done") =>
        /\ Len(ret) = 4
        /\ Len(ret[1]) = Len(ret[2])
        /\ \A j \in 1..Len(ret[1]) : ret[2][j] = qtilde_Q(qtilde, ret[1][j])
        /\ Len(ret[3]) = NumSamples + 1
        /\ Len(ret[4]) = NumSamples + 1
        /\ Len(dfdq) = NumSamples - 1
        /\ \A i \in 1..(NumSamples - 1) : ret[4][i + 1] = dfdq[i]

\* C7 witness: nonconvex_solutions returned a bundle for distinct states.
C7_Witness ==
    /\ caller = "nonconvex_solutions"
    /\ pc = "done"
    /\ q_left # q_right
    /\ Len(ret[1]) = NumXi
    /\ Len(ret[3]) = NumSamples + 1

\* The traffic flow example with q_left = 0.6, q_right = 0.1.
TrafficDown == f = "traffic" /\ q_left = <<3, 5>> /\ q_right = <<1, 10>>

\* The traffic flow example with q_left = 0.1, q_right = 0.6.
TrafficUp == f = "traffic" /\ q_left = <<1, 10>> /\ q_right = <<3, 5>>

\* The Rankine-Hugoniot speed (f(0.6) - f(0.1))/(0.6 - 0.1) = 0.3.
ShockSpeed == <<3, 10>>

\* C8 as claimed: for the traffic flux with q_left = 0.6, q_right = 0.1 the
\* solution is a single shock at speed 0.3, Q = 0.6 for xi below it and
\* Q = 0.1 for xi above it, one grid spacing around xi = 0.3 left aside.
C8_ShockAtSpeed ==
    (TrafficDown /\ HasQ) =>
        \A j \in 1..Len(q) :
            /\ RLt(xi[j], RSub(ShockSpeed, GridSpacing)) => q[j] = <<3, 5>>
            /\ RLt(RAdd(ShockSpeed, GridSpacing), xi[j]) => q[j] = <<1, 10>>

\* C8 amended: for the traffic flux with q_left = 0.6, q_right = 0.1 the
\* solution is a rarefaction fan between the characteristic speeds
\* f'(0.6) = -0.2 and f'(0.1) = 0.8: Q = 0.6 for xi <= -0.2, Q = 0.1 for
\* xi >= 0.8, between them Q is within half a grid spacing of (1 - xi)/2, and
\* Q is non-increasing in xi.
C8_Rarefaction ==
    (TrafficDown /\ HasQ) =>
        /\ \A j \in 1..Len(q) :
              /\ RLe(xi[j], <<-1, 5>>) => q[j] = <<3, 5>>
              /\ RLe(<<4, 5>>, xi[j]) => q[j] = <<1, 10>>
              /\ (RLt(<<-1, 5>>, xi[j]) /\ RLt(xi[j], <<4, 5>>)) =>
                    RLe(RAbs(RSub(q[j], RMul(Half, RSub(One, xi[j])))),
                        RMul(Half, GridSpacing))
        /\ \A j, k \in 1..Len(q) : RLe(xi[j], xi[k]) => RLe(q[k], q[j])

\* C8 witness: a value strictly between 0.1 and 0.6 was returned for an xi more
\* than a grid spacing below 0.3.
C8_Witness ==
    /\ TrafficDown
    /\ HasQ
    /\ \E j \in 1..Len(q) :
          /\ RLt(xi[j], RSub(ShockSpeed, GridSpacing))
          /\ RLt(<<1, 10>>, q[j])
          /\ RLt(q[j], <<3, 5>>)

\* C9 as claimed: for the traffic flux with q_left = 0.1, q_right = 0.6, Q is
\* non-decreasing in xi, is 0.1 at the first and 0.6 at the last sample of
\* [xi_left, xi_right], and is continuous: consecutive samples differ by at
\* most three grid spacings.
C9_ContinuousRarefaction ==
    (TrafficUp /\ HasQ) =>
        /\ \A j, k \in 1..Len(q) : RLe(xi[j], xi[k]) => RLe(q[j], q[k])
        /\ caller = "nonconvex_solutions" =>
              q[1] = <<1, 10>> /\ q[Len(q)] = <<3, 5>>
        /\ \A j \in 1..(Len(q) - 1) :
              RLe(xi[j], xi[j + 1]) =>
                  RLe(RAbs(RSub(q[j + 1], q[j])), RMul(<<3, 1>>, GridSpacing))

\* C9 amended: for the traffic flux with q_left = 0.1, q_right = 0.6, Q is
\* non-decreasing in xi, is 0.1 at the first and 0.6 at the last sample, and
\* is a single shock at speed 0.3: Q = 0.1 for xi < 0.3 and Q = 0.6 for
\* xi > 0.3, a jump of the whole interval and not a continuous profile.
C9_Shock ==
    (TrafficUp /\ HasQ) =>
        /\ \A j, k \in 1..Len(q) : RLe(xi[j], xi[k]) => RLe(q[j], q[k])
        /\ caller = "nonconvex_solutions" =>
              q[1] = <<1, 10>> /\ q[Len(q)] = <<3, 5>>
        /\ \A j \in 1..Len(q) :
              /\ RLt(xi[j], ShockSpeed) => q[j] = <<1, 10>>
              /\ RLt(ShockSpeed, xi[j]) => q[j] = <<3, 5>>

\* C9 witness: two consecutive samples less than 0.05 apart in xi carry 0.1
\* and 0.6.
C9_Witness ==
    /\ TrafficUp
    /\ HasQ
    /\ \E j \in 1..(Len(q) - 1) :
          /\ RLt(xi[j], xi[j + 1])
          /\ RLt(RSub(xi[j + 1], xi[j]), <<1, 20>>)
          /\ q[j] = <<1, 10>>
          /\ q[j + 1] = <<3, 5>>

\* C10: when no limits are given the call ends with
\* xi_left = min(0, df_min) - 0.1*(df_max - df_min) and
\* xi_right = max(0, df_max) + 0.1*(df_max - df_min), so that
\* xi_left <= 0 <= xi_right, xi_left <= df_min and df_max <= xi_right.
C10_DefaultLimits ==
    (NoLimitsGiven /\ Ended) =>
        /\ xi_left # None
        /\ xi_right # None
        /\ dfdq_min # None
        /\ dfdq_max # None
        /\ xi_left = RSub(IF RLt(dfdq_min, Zero) THEN dfdq_min ELSE Zero,
                          RMul(Tenth, RSub(dfdq_max, dfdq_min)))
        /\ xi_right = RAdd(IF RLt(Zero, dfdq_max) THEN dfdq_max ELSE Zero,
                           RMul(Tenth, RSub(dfdq_max, dfdq_min)))
        /\ RLe(xi_left, Zero)
        /\ RLe(Zero, xi_right)
        /\ RLe(xi_left, dfdq_min)
        /\ RLe(dfdq_max, xi_right)

\* The finite-difference speed between grid points i and i+1, written out:
\* (f(q_{i+1}) - f(q_i)) / spacing.
SpeedAt(i) ==
    RDiv(RSub(f_call(f, GridPoint(i + 1)), f_call(f, GridPoint(i))), GridSpacing)

\* C11: in the returned characteristic trace q_char is q_min, the N - 1 grid
\* midpoints, q_max; xi_char is the N - 1 finite-difference speeds in grid
\* order between xi_left and xi_right when q_left <= q_right, and between
\* xi_right and xi_left when q_left > q_right.
C11_CharacteristicTrace ==
    (caller = "nonconvex_solutions" /\ pc = "done") =>
        /\ ret[3][1] = q_lo
        /\ ret[3][NumSamples + 1] = q_hi
        /\ \A i \in 1..(NumSamples - 1) :
              /\ ret[3][i + 1] = RMul(Half, RAdd(GridPoint(i), GridPoint(i + 1)))
              /\ ret[4][i + 1] = SpeedAt(i)
        /\ IF RLe(q_left, q_right)
           THEN ret[4][1] = args.xi_left /\ ret[4][NumSamples + 1] = args.xi_right
           ELSE ret[4][1] = args.xi_right /\ ret[4][NumSamples + 1] = args.xi_left

\* C11 witness: a trace was returned for q_left > q_right, its first xi entry
\* being xi_right and its last xi_left, with speeds that are not all equal.
C11_Witness ==
    /\ caller = "nonconvex_solutions"
    /\ pc = "done"
    /\ RLt(q_right, q_left)
    /\ ret[4][1] = args.xi_right
    /\ ret[4][NumSamples + 1] = args.xi_left
    /\ ret[4][2] # ret[4][NumSamples]

\* The speeds dfdq have been computed by nonconvex_solutions.
SpeedsComputed ==
    /\ caller = "nonconvex_solutions"
    /\ pc \in {"bounds", "char", "return", "done"}

\* C12: with q_left = q_right no step divides by zero: the divisor of the
\* speed computation is not zero and no speed or derived limit is nan.
C12_NoDivisionByZero ==
    (SpeedsComputed /\ q_left = q_right) =>
        /\ ns_spacing(qv) # Zero
        /\ \A i \in 1..Len(dfdq) : ~IsNaN(dfdq[i])
        /\ ~IsNaN(dfdq_min)
        /\ ~IsNaN(dfdq_max)
        /\ ~IsNaN(dfdq_range)

\* C13: the evaluator is monotone in xi: for xi1 < xi2, Q(xi1) <= Q(xi2) when
\* q_left <= q_right and Q(xi1) >= Q(xi2) when q_left > q_right.
C13_MonotoneInXi ==
    HasQ =>
        \A j, k \in 1..Len(q) :
            RLt(xi[j], xi[k]) =>
                IF RLe(q_left, q_right) THEN RLe(q[j], q[k]) ELSE RLe(q[k], q[j])

\* C13 witness: for the nonconvex cubic flux in the argmin branch the evaluator
\* returned three different values, in increasing order for increasing xi.
C13_Witness ==
    /\ HasQ
    /\ f = "cubic"
    /\ RLt(q_left, q_right)
    /\ \E i, j, k \in 1..Len(q) :
          /\ RLt(xi[i], xi[j])
          /\ RLt(xi[j], xi[k])
          /\ RLt(q[i], q[j])
          /\ RLt(q[j], q[k])

\* plot_function's single-valued solution extended to the full domain:
\* q_left, the sampled values, q_right.
q_plot(ql, qxi, qr) == hstack(ql, qxi, qr)

\* xij lies below every finite-difference speed of the grid (xij < df_min).
BelowAllSpeeds(xij) == \A i \in 1..(NumSamples - 1) : RLt(xij, SpeedAt(i))

\* xij lies above every finite-difference speed of the grid (xij > df_max).
AboveAllSpeeds(xij) == \A i \in 1..(NumSamples - 1) : RLt(SpeedAt(i), xij)

\* C14: for q_left # q_right the evaluator returns q_left for every xi below
\* the smallest finite-difference speed and q_right for every xi above the
\* largest, in both branches; so when xi_left < df_min and xi_right > df_max
\* the states the renderer pads with equal the neighbouring solution values.
C14_FarField ==
    (HasQ /\ q_left # q_right) =>
        /\ \A j \in 1..Len(q) :
              /\ BelowAllSpeeds(xi[j]) => q[j] = q_left
              /\ AboveAllSpeeds(xi[j]) => q[j] = q_right
        /\ (SpeedsComputed /\ RLt(args.xi_left, dfdq_min)
                           /\ RLt(dfdq_max, args.xi_right)) =>
              LET qp == q_plot(q_left, q, q_right)
              IN  /\ xi[1] = args.xi_left
                  /\ xi[Len(xi)] = args.xi_right
                  /\ qp[2] = qp[1]
                  /\ qp[Len(qp) - 1] = qp[Len(qp)]

\* C14 witness: nonconvex_solutions returned for q_left > q_right (the argmax
\* branch) with xi_left below and xi_right above every speed, the sampled
\* solution starting at q_left and ending at q_right.
C14_Witness ==
    /\ caller = "nonconvex_solutions"
    /\ pc = "done"
    /\ RLt(q_right, q_left)
    /\ RLt(args.xi_left, dfdq_min)
    /\ RLt(dfdq_max, args.xi_right)
    /\ BelowAllSpeeds(xi[1])
    /\ AboveAllSpeeds(xi[Len(xi)])
    /\ q[1] = q_left
    /\ q[Len(q)] = q_right

\* C14 second witness state: the same in the argmin branch, for a user query.
C14_WitnessArgmin ==
    /\ caller = "user"
    /\ pc = "done"
    /\ RLt(q_left, q_right)
    /\ \E j, k \in 1..Len(q) :
          /\ BelowAllSpeeds(xi[j])
          /\ AboveAllSpeeds(xi[k])
          /\ q[j] = q_left
          /\ q[k] = q_right

=============================================================================
